---------------------------- MODULE Spec2Model ----------------------------
(***************************************************************************)
(* A model of src/mst.py: staged, resumable scraping of a meeting site     *)
(* (symposia -> talks -> talk details) into a TinyDB store.                *)
(*                                                                         *)
(* Text is modelled by TLA+ strings, used as sequences of characters       *)
(* (Len, SubSeq, \o).  A TinyDB table is the sequence of its documents in  *)
(* insertion order; a document is a function from keys to text.  A call    *)
(* of one of the module's functions runs as a sequence of steps, one per   *)
(* loop iteration; pc is the loop the running call is in.                  *)
(***************************************************************************)
EXTENDS Integers, Sequences, FiniteSets, TLC

---------------------------------------------------------------------------
(* Keys, indices and table names (src/mst.py:81-93).                       *)

KEY_SYMP_NAME == "symp_name"
KEY_SYMP_URL == "symp_url"
KEY_PREZ_NAME == "prez_name"
KEY_AUTHORS == "prez_authors"
KEY_ABSTRACT == "prez_abstract"
KEY_PREZ_URL == "prez_url"

INDEX_AUTHORS == 10
INDEX_ABSTRACT == 14

\* url[-8:] in get_symposia_anchors
SUFFIX_LEN == 8
\* the marker tested by both anchor extractors
OPEN_DOCUMENT == "OpenDocument"
\* the sentinel stored when a talk's details cannot be had
NA == "N/A"
\* the repetition counts of check_data's two patterns
ABSTRACT_DOTS == 101
AUTHORS_DOTS == 10

---------------------------------------------------------------------------
(* Python's str operations and the regular expressions the code uses.      *)

\* s[k] (1-based), as a one-character string
Char(s, k) == SubSeq(s, k, k)

\* sub in s
Contains(s, sub) ==
    \E k \in 0..(Len(s) - Len(sub)) : SubSeq(s, k + 1, k + Len(sub)) = sub

\* s.endswith(suf)
EndsWith(s, suf) ==
    /\ Len(suf) <= Len(s)
    /\ SubSeq(s, Len(s) - Len(suf) + 1, Len(s)) = suf

\* s[-n:]
LastChars(s, n) ==
    IF Len(s) <= n THEN s ELSE SubSeq(s, Len(s) - n + 1, Len(s))

\* U+017F, LATIN SMALL LETTER LONG S.  The strings of the model are ASCII:
\* the form feed is written for the long s, and for no other character.
LONG_S == "\f"

\* the case folding re.I applies to the letters of the literal "https" of a
\* str pattern: by Unicode, so that the long s is taken for "s" as "S" is
LowerChar(c) ==
    CASE c = "H" -> "h"
      [] c = "T" -> "t"
      [] c = "P" -> "p"
      [] c = "S" -> "s"
      [] c = LONG_S -> "s"
      [] OTHER -> c

\* re "." : any character but a newline
IsDot(c) == c # "\n"

\* re.search(".", s): some character of s is not a newline
SearchDot(s) == \E k \in 1..Len(s) : IsDot(Char(s, k))

\* re.match(".{n}", s): the first n characters exist and none is a newline
MatchesDots(s, n) ==
    /\ Len(s) >= n
    /\ \A k \in 1..n : IsDot(Char(s, k))

\* re.match("^.{0,n}$", s): at most n characters, none a newline, then the
\* end of the text or one last newline
MatchesAtMostDots(s, n) ==
    \E m \in 0..n :
        /\ m <= Len(s)
        /\ \A k \in 1..m : IsDot(Char(s, k))
        /\ \/ Len(s) = m
           \/ Len(s) = m + 1 /\ Char(s, m + 1) = "\n"

\* The outcome of a function that returns text or raises.
Returned(v) == [raised |-> "", value |-> v]
Raised(e) == [raised |-> e, value |-> ""]

\* p_root = re.compile("(https?://[^/]+)/", re.I), p_root.match(url): the
\* position of the "/" that ends the match, 0 when there is no match.
p_root_match(url) ==
    LET lower4 == LowerChar(Char(url, 1)) \o LowerChar(Char(url, 2))
                  \o LowerChar(Char(url, 3)) \o LowerChar(Char(url, 4))
        p == IF Len(url) >= 5 /\ LowerChar(Char(url, 5)) = "s" THEN 5 ELSE 4
        slashes == {q \in (p + 4)..Len(url) : Char(url, q) = "/"}
        first == CHOOSE q \in slashes : \A r \in slashes : q <= r
    IN  IF /\ Len(url) >= p + 3
           /\ lower4 = "http"
           /\ SubSeq(url, p + 1, p + 3) = "://"
           /\ slashes # {}
           /\ first >= p + 5
        THEN first
        ELSE 0

get_url_root(url) ==
    LET mch == p_root_match(url)
    IN  IF mch = 0
        THEN Raised("RootURLExtractError")
        ELSE Returned(SubSeq(url, 1, mch - 1))

---------------------------------------------------------------------------
(* The source site: what rq.get(url) hands to BeautifulSoup.  A page is    *)
(* its anchors in markup order, soup("a"), and its table cells in markup   *)
(* order, soup("td").  The site does not change during a behaviour; which  *)
(* site it is, is chosen in Init.                                          *)

Webs == {"W1", "W2", "W3", "W4"}

\* <a href=h>t</a> and an anchor with no href attribute
A(t, h) == [text |-> t, has_href |-> TRUE, href |-> h]
ANoHref(t) == [text |-> t, has_href |-> FALSE, href |-> ""]

\* <td>t</td>; has_a: the cell holds an anchor (td.a is not None)
Td(t, has_a) == [text |-> t, a |-> has_a]

RECURSIVE Rep(_, _)
Rep(c, n) ==
    IF n = 0 THEN ""
    ELSE LET half == Rep(c, n \div 2)
         IN  IF n % 2 = 0 THEN half \o half ELSE half \o half \o c

Fill(n) == [k \in 1..n |-> Td("-", FALSE)]

\* A talk page of the site's layout: navigation cells that hold links, and
\* the authors and the abstract in cells 10 and 14 of the others.
TalkPage(authors, abstract) ==
    <<Td("Home", TRUE)>> \o Fill(5) \o <<Td("Back", TRUE)>> \o Fill(5)
    \o <<Td(authors, FALSE)>> \o Fill(3) \o <<Td(abstract, FALSE)>>

\* A talk page with too few cells for the abstract
ShortTalkPage == <<Td("Home", TRUE)>> \o Fill(12)

\* A talk page with too few cells for the authors
EmptyTalkPage == <<Td("Home", TRUE)>> \o Fill(3)

URL_MEETING == "http://h/M?P=12345678"
URL_RELATIVE == "M?P=12345678"
HREF_S1 == "/s1?OpenDocument&P=12345678"
HREF_S2 == "/s2?OpenDocument&P=12345678"
HREF_S3 == "/s3?OpenDocument&P=12345678"
HREF_S4 == "s4?OpenDocument&P=12345678"
HREF_OTHER == "/z?OpenDocument&P=87654321"
HREF_A == "/a?OpenDocument"
HREF_B == "/b?OpenDocument"
HREF_C == "/c?OpenDocument"
HREF_D == "/d?OpenDocument"

\* soup("a") of the page at url
Anchors(w, url) ==
    CASE w = "W1" /\ url = URL_MEETING ->
            <<A("Al", HREF_S1), A("Zed", HREF_OTHER), A("Bo", HREF_S2),
              A("", HREF_S3)>>
      [] w = "W1" /\ url = "http://h" \o HREF_S1 ->
            <<A("t1", HREF_A), A("t1", HREF_B), A("Home", "/M?P=12345678")>>
      [] w = "W1" /\ url = "http://h" \o HREF_S3 ->
            <<A("t3", HREF_D)>>
      [] w = "W2" /\ url = URL_MEETING ->
            <<A("Al", HREF_S1), A("Bo", HREF_S2)>>
      [] w = "W2" /\ url = "http://h" \o HREF_S1 ->
            <<A("t1", HREF_A), A("u2", HREF_C)>>
      [] w = "W2" /\ url = "http://h" \o HREF_S2 ->
            <<A("t3", HREF_D)>>
      [] w = "W3" /\ url = URL_MEETING ->
            <<A("Bo", HREF_S2), A("Cy", HREF_S4), A("Al", HREF_S1)>>
      [] w = "W3" /\ url = "http://h" \o HREF_S1 ->
            <<A("t1", HREF_A), ANoHref("top")>>
      [] w = "W3" /\ url = "http://h" \o HREF_S2 ->
            <<A("t3", HREF_D)>>
      [] w = "W4" /\ url = URL_MEETING ->
            <<ANoHref("top"), A("Al", HREF_S1)>>
      [] OTHER -> <<>>

\* soup("td") of the page at url
Cells(w, url) ==
    CASE url = "http://h" \o HREF_A ->
            TalkPage("Ann and Bob", Rep("a", 101))
      [] url = "http://h" \o HREF_B -> ShortTalkPage
      [] url = "http://h" \o HREF_C ->
            TalkPage("Ann & Cy.", Rep("b", 99))
      [] url = "http://h" \o HREF_D ->
            TalkPage("Dee and Ed", Rep("c", 50) \o "\n" \o Rep("c", 50))
      [] OTHER -> EmptyTalkPage

---------------------------------------------------------------------------
(* The three fetch-and-extract functions.  Each is wrapped by opnieuw's    *)
(* retry: the request is repeated on a RequestException, and when the      *)
(* retries are used up the RequestException reaches the caller.  ok is the *)
(* outcome of that: TRUE when some attempt got the page.                   *)

get_symposia_anchors(w, url, ok) ==
    LET as == Anchors(w, url)
    IN  IF ~ok
        THEN [raised |-> "RequestException", value |-> <<>>]
        ELSE IF \E k \in 1..Len(as) : ~as[k].has_href
        THEN [raised |-> "KeyError", value |-> <<>>]
        ELSE [raised |-> "",
              value |-> SelectSeq(as, LAMBDA a :
                  /\ EndsWith(a.href, LastChars(url, SUFFIX_LEN))
                  /\ Contains(a.href, OPEN_DOCUMENT))]

get_prez_anchors(w, url, ok) ==
    LET as == Anchors(w, url)
    IN  IF ~ok
        THEN [raised |-> "RequestException", value |-> <<>>]
        ELSE IF \E k \in 1..Len(as) : ~as[k].has_href
        THEN [raised |-> "KeyError", value |-> <<>>]
        ELSE [raised |-> "",
              value |-> SelectSeq(as, LAMBDA a :
                  EndsWith(a.href, OPEN_DOCUMENT))]

get_prez_data(w, url, ok) ==
    LET tds == SelectSeq(Cells(w, url), LAMBDA td : ~td.a)
    IN  IF ~ok
        THEN [raised |-> "RequestException", value |-> <<>>]
        ELSE IF Len(tds) <= INDEX_AUTHORS \/ Len(tds) <= INDEX_ABSTRACT
        THEN [raised |-> "IndexError", value |-> <<>>]
        ELSE [raised |-> "",
              value |-> (KEY_AUTHORS :> tds[INDEX_AUTHORS + 1].text)
                        @@ (KEY_ABSTRACT :> tds[INDEX_ABSTRACT + 1].text)]

---------------------------------------------------------------------------
(* The store.  A TinyDB table keeps its documents in insertion order,      *)
(* each under a document id.                                               *)

Entry(id, d) == [doc_id |-> id, doc |-> d]

\* Table._get_next_id: one more than the largest id in the table
NextId(table) ==
    IF table = <<>> THEN 1
    ELSE 1 + (CHOOSE m \in {table[k].doc_id : k \in 1..Len(table)} :
                 \A k \in 1..Len(table) : table[k].doc_id <= m)

\* Table.insert of a plain dict: stored under the next free id
Insert(table, d) == Append(table, Entry(NextId(table), d))

\* Table.insert of a Document (a search result): stored under the id the
\* Document carries, and refused when the table holds that id already
IdTaken(table, id) == \E k \in 1..Len(table) : table[k].doc_id = id

\* InsertDocument with the document put before the others
InsertDocument_front(table, id, d) ==
    IF IdTaken(table, id)
    THEN [raised |-> "ValueError", value |-> table]
    ELSE [raised |-> "", value |-> <<Entry(id, d)>> \o table]

\* InsertDocument as an upsert: a document of that id is overwritten
InsertDocument_upsert(table, id, d) ==
    [raised |-> "",
     value |-> IF IdTaken(table, id)
               THEN [k \in 1..Len(table) |->
                        IF table[k].doc_id = id THEN Entry(id, d)
                        ELSE table[k]]
               ELSE Append(table, Entry(id, d))]

InsertDocument(table, id, d) ==
    IF IdTaken(table, id)
    THEN [raised |-> "ValueError", value |-> table]
    ELSE [raised |-> "", value |-> Append(table, Entry(id, d))]

\* Query().key.search("."): the documents that have the key, its text
\* holding a character that is not a newline
SearchKeyDot(table, key) ==
    SelectSeq(table, LAMBDA e :
        key \in DOMAIN e.doc /\ SearchDot(e.doc[key]))

\* A table's query cache, for one query: a TinyDB object keeps the list a
\* search returned and answers the same search again from it, until an
\* insert into that table clears it.  The cached list holds the documents
\* the search handed out, not copies of them.  (The cache keeps ten
\* queries; the sites here have fewer symposia than that, so the queries of
\* retrieve_talks never push this one out.)
NoCache == [cached |-> FALSE, docs |-> <<>>]

\* Table.search(Query().key.search(".")) with that cache
Search(cache, table, key) ==
    IF cache.cached THEN cache.docs ELSE SearchKeyDot(table, key)

\* Query().key == v, as a test of one document
KeyIs(d, key, v) == key \in DOMAIN d /\ d[key] = v

SympDoc(symp_name, symp_url) ==
    (KEY_SYMP_NAME :> symp_name) @@ (KEY_SYMP_URL :> symp_url)

LinkDoc(prez_name, prez_url, symp_name, symp_url) ==
    (KEY_PREZ_NAME :> prez_name) @@ (KEY_PREZ_URL :> prez_url)
    @@ (KEY_SYMP_NAME :> symp_name) @@ (KEY_SYMP_URL :> symp_url)

Sentinel == (KEY_AUTHORS :> NA) @@ (KEY_ABSTRACT :> NA)

\* some entry of the list is a substring of text
AnySkip(skips, text) == \E k \in 1..Len(skips) : Contains(text, skips[k])

---------------------------------------------------------------------------
(* State.                                                                  *)

VARIABLES
    web,        \* the source site
    symp_urls,  \* table TABLE_SYMP_URLS
    prez_urls,  \* table TABLE_PREZ_URLS
    prez_cache, \* what the TinyDB object bound to the store has cached for
                \* the search of retrieve_talk_details in that table
    data,       \* table TABLE_DATA, the default table
    op,         \* the function called last: running, or ended
    arg,        \* its arguments
    result,     \* "running", "returned", or the exception it raised
    pc,         \* "idle", or the loop the running call is in
    outer,      \* the list its outer for loop iterates
    i,          \* the position of the outer loop
    inner,      \* the list its inner for loop iterates
    j,          \* the position of the inner loop
    loc,        \* its locals symp_name, symp_url, url_root
    fetch,      \* the URL its last step requested, "" when none
    fetch_raised, \* the exception that request and extraction raised, or ""
    printed,    \* what check_data printed last
    calls,      \* the number of calls made
    oneshots,   \* the number of them that write the default table directly
    again       \* "" unless the call repeats the call before it (the same
                \* function, the same arguments): then how that one ended

vars == <<web, symp_urls, prez_urls, prez_cache, data, op, arg, result, pc,
          outer, i, inner, j, loc, fetch, fetch_raised, printed, calls,
          oneshots, again>>

\* the number of calls made on one store, and the number of them that are
\* calls of scrape_meeting or of scrape_symposia_and_talks
MaxCalls == 4
MaxOneShots == 1

OneShots == {"scrape_meeting", "scrape_symposia_and_talks"}

\* the arguments the calls are made with
MeetingURLs == {URL_MEETING, URL_RELATIVE}
SkipLists == {<<>>, <<"y">>, <<"y", "l">>}
UrlSkipLists == {<<>>, <<"/a?">>, <<"/b?", "/c?">>}
NameSkipLists == {<<>>, <<"1">>}

NoArg == [url |-> "", skips |-> <<>>, url_skips |-> <<>>, name_skips |-> <<>>]
NoLoc == [symp_name |-> "", symp_url |-> "", url_root |-> ""]

Init ==
    /\ web \in Webs
    /\ symp_urls = <<>> /\ prez_urls = <<>> /\ data = <<>>
    /\ prez_cache = NoCache
    /\ op = "" /\ arg = NoArg /\ result = ""
    /\ pc = "idle"
    /\ outer = <<>> /\ i = 0 /\ inner = <<>> /\ j = 0 /\ loc = NoLoc
    /\ fetch = "" /\ fetch_raised = "" /\ printed = <<>>
    /\ calls = 0 /\ oneshots = 0
    /\ again = ""

\* A call is made when no call is running.
Call(name, a) ==
    /\ pc = "idle"
    /\ calls < MaxCalls
    /\ calls' = calls + 1
    /\ name \in OneShots => oneshots < MaxOneShots
    /\ oneshots' = (IF name \in OneShots THEN oneshots + 1 ELSE oneshots)
    /\ again' = (IF name = op /\ a = arg THEN result ELSE "")
    /\ op' = name
    /\ arg' = a
    /\ web' = web

\* The running call ends: res is "returned" or the exception that leaves it.
End(res) ==
    /\ pc' = "idle"
    /\ result' = res
    /\ outer' = <<>> /\ i' = 0 /\ inner' = <<>> /\ j' = 0
    /\ loc' = NoLoc

\* what a step of a running call leaves alone
Running == UNCHANGED <<web, op, arg, calls, oneshots, again, printed>>

---------------------------------------------------------------------------
(* scrape_meeting, scrape_symposia, scrape_symposia_and_talks.             *)

\* The first lines of the three: the root of the meeting URL, then the
\* meeting page's symposium anchors.
MeetingPrologue(name, url, ok) ==
    LET root == get_url_root(url)
        got == get_symposia_anchors(web, url, ok)
    IN  /\ Call(name, [NoArg EXCEPT !.url = url])
        /\ UNCHANGED <<symp_urls, prez_urls, prez_cache, data, printed>>
        /\ IF root.raised # ""
           THEN End(root.raised) /\ fetch' = "" /\ fetch_raised' = ""
           ELSE IF got.raised # ""
           THEN End(got.raised) /\ fetch' = url /\ fetch_raised' = got.raised
           ELSE /\ pc' = name
                /\ result' = "running"
                /\ outer' = got.value /\ i' = 1 /\ inner' = <<>> /\ j' = 0
                /\ loc' = [NoLoc EXCEPT !.url_root = root.value]
                /\ fetch' = url /\ fetch_raised' = ""

\* The first lines of the outer loop body of scrape_meeting and of
\* scrape_symposia_and_talks: the symposium page's talk anchors.
SympPrologue(name, ok) ==
    /\ pc = name
    /\ i <= Len(outer)
    /\ LET symp_name == outer[i].text
           symp_url == loc.url_root \o outer[i].href
           got == get_prez_anchors(web, symp_url, ok)
       IN  /\ fetch' = symp_url
           /\ fetch_raised' = got.raised
           /\ IF got.raised # ""
              THEN End(got.raised)
              ELSE /\ pc' = name \o ".prez"
                   /\ inner' = got.value /\ j' = 1
                   /\ loc' = [loc EXCEPT !.symp_name = symp_name,
                                         !.symp_url = symp_url]
                   /\ UNCHANGED <<result, outer, i>>
    /\ UNCHANGED <<symp_urls, prez_urls, prez_cache, data>>
    /\ Running

scrape_meeting_call(url, ok) == MeetingPrologue("scrape_meeting", url, ok)

scrape_meeting_symp(ok) == SympPrologue("scrape_meeting", ok)

\* scrape_meeting_prez without the try statement: what get_prez_data
\* raises leaves the call
scrape_meeting_prez_uncaught(ok) ==
    /\ pc = "scrape_meeting.prez"
    /\ j <= Len(inner)
    /\ LET prez_name == inner[j].text
           prez_url == loc.url_root \o inner[j].href
           got == get_prez_data(web, prez_url, ok)
       IN  /\ fetch' = prez_url
           /\ fetch_raised' = got.raised
           /\ IF got.raised # ""
              THEN End(got.raised) /\ data' = data
              ELSE /\ data' = Insert(data,
                          LinkDoc(prez_name, prez_url, loc.symp_name,
                                  loc.symp_url) @@ got.value)
                   /\ j' = j + 1
                   /\ UNCHANGED <<result, pc, outer, i, inner, loc>>
    /\ UNCHANGED <<symp_urls, prez_urls, prez_cache>>
    /\ Running

scrape_meeting_prez(ok) ==
    /\ pc = "scrape_meeting.prez"
    /\ j <= Len(inner)
    /\ LET prez_name == inner[j].text
           prez_url == loc.url_root \o inner[j].href
           got == get_prez_data(web, prez_url, ok)
           prez_data == IF got.raised = "" THEN got.value ELSE Sentinel
       IN  /\ data' = Insert(data,
                   LinkDoc(prez_name, prez_url, loc.symp_name, loc.symp_url)
                   @@ prez_data)
           /\ fetch' = prez_url
           /\ fetch_raised' = got.raised
    /\ j' = j + 1
    /\ UNCHANGED <<symp_urls, prez_urls, prez_cache, result, pc, outer, i,
                   inner, loc>>
    /\ Running

scrape_symposia_call(url, ok) == MeetingPrologue("scrape_symposia", url, ok)

\* scrape_symposia_symp with a duplicate check: a symposium whose row is
\* stored already is not inserted again
scrape_symposia_symp_checked ==
    /\ pc = "scrape_symposia"
    /\ i <= Len(outer)
    /\ LET symp_name == outer[i].text
           symp_url == loc.url_root \o outer[i].href
       IN  symp_urls' =
              IF \E k \in 1..Len(symp_urls) :
                    symp_urls[k].doc = SympDoc(symp_name, symp_url)
              THEN symp_urls
              ELSE Insert(symp_urls, SympDoc(symp_name, symp_url))
    /\ i' = i + 1
    /\ fetch' = "" /\ fetch_raised' = ""
    /\ UNCHANGED <<prez_urls, prez_cache, data, result, pc, outer, inner, j,
                   loc>>
    /\ Running

scrape_symposia_symp ==
    /\ pc = "scrape_symposia"
    /\ i <= Len(outer)
    /\ LET symp_name == outer[i].text
           symp_url == loc.url_root \o outer[i].href
       IN  symp_urls' = Insert(symp_urls, SympDoc(symp_name, symp_url))
    /\ i' = i + 1
    /\ fetch' = "" /\ fetch_raised' = ""
    /\ UNCHANGED <<prez_urls, prez_cache, data, result, pc, outer, inner, j,
                   loc>>
    /\ Running

scrape_symposia_and_talks_call(url, ok) ==
    MeetingPrologue("scrape_symposia_and_talks", url, ok)

scrape_symposia_and_talks_symp(ok) ==
    SympPrologue("scrape_symposia_and_talks", ok)

scrape_symposia_and_talks_prez ==
    /\ pc = "scrape_symposia_and_talks.prez"
    /\ j <= Len(inner)
    /\ LET prez_name == inner[j].text
           prez_url == loc.url_root \o inner[j].href
       IN  data' = Insert(data,
               LinkDoc(prez_name, prez_url, loc.symp_name, loc.symp_url))
    /\ j' = j + 1
    /\ fetch' = "" /\ fetch_raised' = ""
    /\ UNCHANGED <<symp_urls, prez_urls, prez_cache, result, pc, outer, i,
                   inner, loc>>
    /\ Running

---------------------------------------------------------------------------
(* retrieve_talks.                                                         *)

retrieve_talks_call(skips) ==
    /\ Call("retrieve_talks", [NoArg EXCEPT !.skips = skips])
    /\ pc' = "retrieve_talks"
    /\ result' = "running"
    /\ outer' = SearchKeyDot(symp_urls, KEY_SYMP_NAME)
    /\ i' = 1 /\ inner' = <<>> /\ j' = 0 /\ loc' = NoLoc
    /\ fetch' = "" /\ fetch_raised' = ""
    /\ UNCHANGED <<symp_urls, prez_urls, prez_cache, data, printed>>

\* SympLeftOut without the test of the talk-link table
SympLeftOut_no_resume(symp_name) == AnySkip(arg.skips, symp_name)

\* SympLeftOut without the loop over skips
SympLeftOut_no_skips(symp_name) ==
    \E k \in 1..Len(prez_urls) :
        KeyIs(prez_urls[k].doc, KEY_SYMP_NAME, symp_name)

\* the symposium is left out: marked as skip, or already present
SympLeftOut(symp_name) ==
    \/ AnySkip(arg.skips, symp_name)
    \/ \E k \in 1..Len(prez_urls) :
          KeyIs(prez_urls[k].doc, KEY_SYMP_NAME, symp_name)

\* retrieve_talks_symp with the failure of the page caught: the symposium
\* is given up and the loop goes on
retrieve_talks_symp_caught(ok) ==
    /\ pc = "retrieve_talks"
    /\ i <= Len(outer)
    /\ LET symp_name == outer[i].doc[KEY_SYMP_NAME]
           symp_url == outer[i].doc[KEY_SYMP_URL]
           root == get_url_root(symp_url)
           got == get_prez_anchors(web, symp_url, ok)
       IN  IF SympLeftOut(symp_name)
           THEN /\ i' = i + 1
                /\ fetch' = "" /\ fetch_raised' = ""
                /\ UNCHANGED <<result, pc, outer, inner, j, loc>>
           ELSE IF root.raised # ""
           THEN End(root.raised) /\ fetch' = "" /\ fetch_raised' = ""
           ELSE IF got.raised # ""
           THEN /\ i' = i + 1
                /\ fetch' = symp_url /\ fetch_raised' = got.raised
                /\ UNCHANGED <<result, pc, outer, inner, j, loc>>
           ELSE /\ pc' = "retrieve_talks.prez"
                /\ inner' = got.value /\ j' = 1
                /\ loc' = [symp_name |-> symp_name, symp_url |-> symp_url,
                           url_root |-> root.value]
                /\ fetch' = symp_url /\ fetch_raised' = ""
                /\ UNCHANGED <<result, outer, i>>
    /\ UNCHANGED <<symp_urls, prez_urls, prez_cache, data>>
    /\ Running

retrieve_talks_symp(ok) ==
    /\ pc = "retrieve_talks"
    /\ i <= Len(outer)
    /\ LET symp_name == outer[i].doc[KEY_SYMP_NAME]
           symp_url == outer[i].doc[KEY_SYMP_URL]
           root == get_url_root(symp_url)
           got == get_prez_anchors(web, symp_url, ok)
       IN  IF SympLeftOut(symp_name)
           THEN /\ i' = i + 1
                /\ fetch' = "" /\ fetch_raised' = ""
                /\ UNCHANGED <<result, pc, outer, inner, j, loc>>
           ELSE IF root.raised # ""
           THEN End(root.raised) /\ fetch' = "" /\ fetch_raised' = ""
           ELSE IF got.raised # ""
           THEN End(got.raised) /\ fetch' = symp_url
                /\ fetch_raised' = got.raised
           ELSE /\ pc' = "retrieve_talks.prez"
                /\ inner' = got.value /\ j' = 1
                /\ loc' = [symp_name |-> symp_name, symp_url |-> symp_url,
                           url_root |-> root.value]
                /\ fetch' = symp_url /\ fetch_raised' = ""
                /\ UNCHANGED <<result, outer, i>>
    /\ UNCHANGED <<symp_urls, prez_urls, prez_cache, data>>
    /\ Running

\* retrieve_talks_prez with the insert made on db, the default table, as
\* scrape_symposia_and_talks makes it
retrieve_talks_prez_default ==
    /\ pc = "retrieve_talks.prez"
    /\ j <= Len(inner)
    /\ LET prez_name == inner[j].text
           prez_url == loc.url_root \o inner[j].href
       IN  data' = Insert(data,
               LinkDoc(prez_name, prez_url, loc.symp_name, loc.symp_url))
    /\ j' = j + 1
    /\ fetch' = "" /\ fetch_raised' = ""
    /\ UNCHANGED <<symp_urls, prez_urls, prez_cache, result, pc, outer, i,
                   inner, loc>>
    /\ Running

retrieve_talks_prez ==
    /\ pc = "retrieve_talks.prez"
    /\ j <= Len(inner)
    /\ LET prez_name == inner[j].text
           prez_url == loc.url_root \o inner[j].href
       IN  prez_urls' = Insert(prez_urls,
               LinkDoc(prez_name, prez_url, loc.symp_name, loc.symp_url))
    /\ prez_cache' = NoCache
    /\ j' = j + 1
    /\ fetch' = "" /\ fetch_raised' = ""
    /\ UNCHANGED <<symp_urls, data, result, pc, outer, i, inner, loc>>
    /\ Running

---------------------------------------------------------------------------
(* retrieve_talk_details.                                                  *)

retrieve_talk_details_call(url_skips, name_skips) ==
    /\ Call("retrieve_talk_details",
            [NoArg EXCEPT !.url_skips = url_skips, !.name_skips = name_skips])
    /\ pc' = "retrieve_talk_details"
    /\ result' = "running"
    /\ outer' = Search(prez_cache, prez_urls, KEY_SYMP_NAME)
    /\ prez_cache' = [cached |-> TRUE, docs |-> outer']
    /\ i' = 1 /\ inner' = <<>> /\ j' = 0 /\ loc' = NoLoc
    /\ fetch' = "" /\ fetch_raised' = ""
    /\ UNCHANGED <<symp_urls, prez_urls, data, printed>>

\* SkipPrez with the list of name skips left unread
SkipPrez_url_only(prez_data) ==
    AnySkip(arg.url_skips, prez_data[KEY_PREZ_URL])

\* skip_prez: the talk link is marked as URL skip or as name skip
SkipPrez(prez_data) ==
    \/ AnySkip(arg.url_skips, prez_data[KEY_PREZ_URL])
    \/ AnySkip(arg.name_skips, prez_data[KEY_PREZ_NAME])

\* AlreadyPresent with the talk's URL tested in place of its name
AlreadyPresent_by_url(prez_data) ==
    \E k \in 1..Len(data) :
        /\ KeyIs(data[k].doc, KEY_PREZ_URL, prez_data[KEY_PREZ_URL])
        /\ KeyIs(data[k].doc, KEY_SYMP_NAME, prez_data[KEY_SYMP_NAME])

\* AlreadyPresent with sentinel records not counted, so that they are tried
\* again
AlreadyPresent_retry_na(prez_data) ==
    \E k \in 1..Len(data) :
        /\ KeyIs(data[k].doc, KEY_PREZ_NAME, prez_data[KEY_PREZ_NAME])
        /\ KeyIs(data[k].doc, KEY_SYMP_NAME, prez_data[KEY_SYMP_NAME])
        /\ ~KeyIs(data[k].doc, KEY_AUTHORS, NA)

\* the default table holds a record of the talk's name and symposium
AlreadyPresent(prez_data) ==
    \E k \in 1..Len(data) :
        /\ KeyIs(data[k].doc, KEY_PREZ_NAME, prez_data[KEY_PREZ_NAME])
        /\ KeyIs(data[k].doc, KEY_SYMP_NAME, prez_data[KEY_SYMP_NAME])

\* prez_data after the try statement: the page's authors and abstract, or
\* the sentinel when get_prez_data raised
Detailed(prez_data, got) ==
    (IF got.raised = "" THEN got.value ELSE Sentinel) @@ prez_data

\* prez_data.update changes the document of the list in place, and the
\* cached list holds that same document; data_table.insert then stores a
\* copy of it under its id
retrieve_talk_details_prez(ok) ==
    /\ pc = "retrieve_talk_details"
    /\ i <= Len(outer)
    /\ LET prez_data == outer[i].doc
           got == get_prez_data(web, prez_data[KEY_PREZ_URL], ok)
           updated == [outer EXCEPT ![i].doc = Detailed(prez_data, got)]
           ins == InsertDocument(data, outer[i].doc_id, updated[i].doc)
       IN  IF SkipPrez(prez_data) \/ AlreadyPresent(prez_data)
           THEN /\ i' = i + 1
                /\ fetch' = "" /\ fetch_raised' = ""
                /\ UNCHANGED <<prez_cache, data, result, pc, outer, inner,
                               j, loc>>
           ELSE /\ fetch' = prez_data[KEY_PREZ_URL]
                /\ fetch_raised' = got.raised
                /\ prez_cache' = [prez_cache EXCEPT !.docs = updated]
                /\ IF ins.raised # ""
                   THEN End(ins.raised) /\ data' = data
                   ELSE /\ data' = ins.value
                        /\ outer' = updated
                        /\ i' = i + 1
                        /\ UNCHANGED <<result, pc, inner, j, loc>>
    /\ UNCHANGED <<symp_urls, prez_urls>>
    /\ Running

---------------------------------------------------------------------------
(* check_data.                                                             *)

\* the query of check_data, as a test of one document
Flagged(d) ==
    \/ KEY_ABSTRACT \in DOMAIN d /\ MatchesDots(d[KEY_ABSTRACT], ABSTRACT_DOTS)
    \/ KEY_AUTHORS \in DOMAIN d
       /\ MatchesAtMostDots(d[KEY_AUTHORS], AUTHORS_DOTS)

check_data ==
    /\ Call("check_data", NoArg)
    /\ printed' = SelectSeq(data, LAMBDA e : Flagged(e.doc))
    /\ End("returned")
    /\ fetch' = "" /\ fetch_raised' = ""
    /\ UNCHANGED <<symp_urls, prez_urls, prez_cache, data>>

---------------------------------------------------------------------------
(* The ends of the loops.                                                  *)

\* the inner loop is exhausted: on to the next symposium
symp_done ==
    /\ pc \in {"scrape_meeting.prez", "scrape_symposia_and_talks.prez",
               "retrieve_talks.prez"}
    /\ j > Len(inner)
    /\ pc' = op
    /\ i' = i + 1
    /\ inner' = <<>> /\ j' = 0
    /\ loc' = [loc EXCEPT !.symp_name = "", !.symp_url = ""]
    /\ fetch' = "" /\ fetch_raised' = ""
    /\ UNCHANGED <<symp_urls, prez_urls, prez_cache, data, result, outer>>
    /\ Running

\* bind_db on the path of the store, between calls: the file is as it was,
\* and the new TinyDB object has cached no query
bind_db ==
    /\ pc = "idle"
    /\ prez_cache' = NoCache
    /\ UNCHANGED <<web, symp_urls, prez_urls, data, op, arg, result, pc,
                   outer, i, inner, j, loc, fetch, fetch_raised, printed,
                   calls, oneshots, again>>

\* the outer loop is exhausted: the function returns
return_none ==
    /\ pc \in {"scrape_meeting", "scrape_symposia",
               "scrape_symposia_and_talks", "retrieve_talks",
               "retrieve_talk_details"}
    /\ i > Len(outer)
    /\ End("returned")
    /\ fetch' = "" /\ fetch_raised' = ""
    /\ UNCHANGED <<symp_urls, prez_urls, prez_cache, data>>
    /\ Running

---------------------------------------------------------------------------
(* Specifications.                                                         *)

\* the staged phases, and the check
NextStaged ==
    \/ \E url \in MeetingURLs, ok \in BOOLEAN : scrape_symposia_call(url, ok)
    \/ scrape_symposia_symp
    \/ \E skips \in SkipLists : retrieve_talks_call(skips)
    \/ \E ok \in BOOLEAN : retrieve_talks_symp(ok)
    \/ retrieve_talks_prez
    \/ \E us \in UrlSkipLists, ns \in NameSkipLists :
          retrieve_talk_details_call(us, ns)
    \/ \E ok \in BOOLEAN : retrieve_talk_details_prez(ok)
    \/ check_data
    \/ symp_done
    \/ return_none
    \/ bind_db

\* the scrapes that write the default table directly
NextOneShot ==
    \/ \E url \in MeetingURLs, ok \in BOOLEAN : scrape_meeting_call(url, ok)
    \/ \E ok \in BOOLEAN : scrape_meeting_symp(ok)
    \/ \E ok \in BOOLEAN : scrape_meeting_prez(ok)
    \/ \E url \in MeetingURLs, ok \in BOOLEAN :
          scrape_symposia_and_talks_call(url, ok)
    \/ \E ok \in BOOLEAN : scrape_symposia_and_talks_symp(ok)
    \/ scrape_symposia_and_talks_prez

Next == NextStaged \/ NextOneShot

Spec == Init /\ [][Next]_vars

---------------------------------------------------------------------------
(* get_url_root alone, called once on a text drawn from RootInputs.        *)

RootSchemes ==
    {"http", "https", "HTTP", "Https", "ftp", "htp", "httpss", "",
     "http" \o LONG_S, "HTTP" \o LONG_S}
RootSeps == {"://", ":/", "//", ":"}
RootHosts == {"", "h", "example.org", "h:80"}
RootRests == {"", "/", "/path?x=1", "/p/q/", "?x=1", "//"}

RootInputs ==
    {s \o p \o h \o r :
        s \in RootSchemes, p \in RootSeps, h \in RootHosts, r \in RootRests}
    \cup {"not-a-url", URL_RELATIVE, " http://h/", "/http://h/", URL_MEETING}

InitRoot ==
    /\ web = "W1"
    /\ symp_urls = <<>> /\ prez_urls = <<>> /\ data = <<>>
    /\ prez_cache = NoCache
    /\ op = "" /\ result = ""
    /\ \E url \in RootInputs : arg = [NoArg EXCEPT !.url = url]
    /\ pc = "idle"
    /\ outer = <<>> /\ i = 0 /\ inner = <<>> /\ j = 0 /\ loc = NoLoc
    /\ fetch = "" /\ fetch_raised = "" /\ printed = <<>>
    /\ calls = 0 /\ oneshots = 0
    /\ again = ""

get_url_root_call ==
    /\ pc = "idle" /\ op = ""
    /\ LET root == get_url_root(arg.url)
       IN  /\ op' = "get_url_root"
           /\ result' = (IF root.raised = "" THEN "returned" ELSE root.raised)
           /\ loc' = [NoLoc EXCEPT !.url_root = root.value]
    /\ UNCHANGED <<web, symp_urls, prez_urls, prez_cache, data, arg, pc,
                   outer, i, inner, j, fetch, fetch_raised, printed, calls,
                   oneshots, again>>

SpecRoot == InitRoot /\ [][get_url_root_call]_vars

---------------------------------------------------------------------------
(* The three fetch-and-extract functions alone, each called once on a page *)
(* of a site.                                                              *)

PageURLs ==
    {URL_MEETING, "http://h" \o HREF_S1, "http://h" \o HREF_S2,
     "http://h" \o HREF_S3, "http://h" \o HREF_A, "http://h" \o HREF_B,
     "http://h" \o HREF_D}

InitExtract ==
    /\ web \in Webs
    /\ symp_urls = <<>> /\ prez_urls = <<>> /\ data = <<>>
    /\ prez_cache = NoCache
    /\ op = "" /\ result = ""
    /\ \E url \in PageURLs : arg = [NoArg EXCEPT !.url = url]
    /\ pc = "idle"
    /\ outer = <<>> /\ i = 0 /\ inner = <<>> /\ j = 0 /\ loc = NoLoc
    /\ fetch = "" /\ fetch_raised = "" /\ printed = <<>>
    /\ calls = 0 /\ oneshots = 0
    /\ again = ""

\* the call of one of the three: outer is the list it returns
Extracted(name, got) ==
    /\ pc = "idle" /\ op = ""
    /\ op' = name
    /\ result' = (IF got.raised = "" THEN "returned" ELSE got.raised)
    /\ outer' = got.value
    /\ fetch' = arg.url
    /\ fetch_raised' = got.raised
    /\ UNCHANGED <<web, symp_urls, prez_urls, prez_cache, data, arg, pc, i,
                   inner, j, loc, printed, calls, oneshots, again>>

get_symposia_anchors_call(ok) ==
    Extracted("get_symposia_anchors", get_symposia_anchors(web, arg.url, ok))

get_prez_anchors_call(ok) ==
    Extracted("get_prez_anchors", get_prez_anchors(web, arg.url, ok))

get_prez_data_call(ok) ==
    LET got == get_prez_data(web, arg.url, ok)
    IN  Extracted("get_prez_data",
                  [raised |-> got.raised,
                   value |-> IF got.raised = "" THEN <<got.value>>
                             ELSE <<>>])

NextExtract ==
    \/ \E ok \in BOOLEAN : get_symposia_anchors_call(ok)
    \/ \E ok \in BOOLEAN : get_prez_anchors_call(ok)
    \/ \E ok \in BOOLEAN : get_prez_data_call(ok)

SpecExtract == InitExtract /\ [][NextExtract]_vars

---------------------------------------------------------------------------
(* The staged run on a new store: scrape_symposia, then retrieve_talks     *)
(* without skips, then retrieve_talk_details without skip lists.  Each is  *)
(* called once the one before it has returned, and a call that ended in an *)
(* exception is made again.                                                *)

NextStagedRun ==
    \/ /\ op \in {"", "scrape_symposia"} /\ result # "returned"
       /\ \E url \in MeetingURLs, ok \in BOOLEAN : scrape_symposia_call(url, ok)
    \/ scrape_symposia_symp
    \/ /\ \/ op = "scrape_symposia" /\ result = "returned"
          \/ op = "retrieve_talks" /\ result # "returned"
       /\ retrieve_talks_call(<<>>)
    \/ \E ok \in BOOLEAN : retrieve_talks_symp(ok)
    \/ retrieve_talks_prez
    \/ symp_done
    \/ /\ op = "retrieve_talks" /\ result = "returned"
       /\ retrieve_talk_details_call(<<>>, <<>>)
    \/ \E ok \in BOOLEAN : retrieve_talk_details_prez(ok)
    \/ return_none

SpecStagedRun == Init /\ [][NextStagedRun]_vars

---------------------------------------------------------------------------
(* Properties.                                                             *)

Rows(table) == 1..Len(table)

\* the record is of the talk link's (talk name, symposium name) pair
SamePair(d, link) ==
    /\ d[KEY_PREZ_NAME] = link[KEY_PREZ_NAME]
    /\ d[KEY_SYMP_NAME] = link[KEY_SYMP_NAME]

\* the record carries the talk link's four fields
SameLink(d, link) ==
    /\ SamePair(d, link)
    /\ d[KEY_PREZ_URL] = link[KEY_PREZ_URL]
    /\ d[KEY_SYMP_URL] = link[KEY_SYMP_URL]

\* C1: a call of retrieve_talk_details that repeats the call before it, with
\* the same skip lists, leaves the default table as that call left it,
\* however the fetches of the first call went and however it ended; when the
\* first call returned, the second requests no page and returns as well,
\* every talk link it reaches being skipped or already present.
C1_DetailsIdempotent ==
    [][(op = "retrieve_talk_details" /\ pc = "retrieve_talk_details"
        /\ again # "")
       => /\ data' = data
          /\ again = "returned"
             => fetch' = "" /\ result' \in {"running", "returned"}]_vars

\* a second call in a row has returned, over a table that holds a record
\* with real details and a sentinel record
C1_Witness ==
    /\ op = "retrieve_talk_details" /\ again = "returned"
    /\ result = "returned"
    /\ \E k \in Rows(data) : KeyIs(data[k].doc, KEY_AUTHORS, NA)
    /\ \E k \in Rows(data) : KeyIs(data[k].doc, KEY_AUTHORS, "Ann and Bob")

\* C2: a call of retrieve_talks that repeats a call that returned, with the
\* same skips and the site unchanged, leaves the talk-link table as it was:
\* no step of it inserts a row.
C2_TalksIdempotent ==
    [][(op = "retrieve_talks" /\ result = "running" /\ again = "returned")
       => prez_urls' = prez_urls]_vars

\* a second call in a row has returned, the symposium table holding each
\* symposium twice and one symposium having no talks
C2_Witness ==
    /\ web = "W1"
    /\ op = "retrieve_talks" /\ again = "returned" /\ result = "returned"
    /\ Len(symp_urls) = 6
    /\ Len(prez_urls) = 2

\* no two records of the default table are of the same (talk name,
\* symposium name) pair
UniquePairs ==
    \A k, l \in Rows(data) :
        k # l => ~SamePair(data[k].doc, data[l].doc)

\* C3, as claimed: after any calls of the five scrape functions no two
\* records of the default table are of the same pair.
C3_UniqueAfterAnyCalls == UniquePairs

\* C3, amended: the same, after calls of scrape_symposia, retrieve_talks
\* and retrieve_talk_details only.
C3_UniqueAfterStagedCalls == oneshots = 0 => UniquePairs

\* retrieve_talk_details has returned over two talk links of one pair, and
\* one record stands for them
C3_Witness ==
    /\ oneshots = 0
    /\ op = "retrieve_talk_details" /\ result = "returned"
    /\ Len(data) = 1
    /\ \E k, l \in Rows(prez_urls) :
          k # l /\ SamePair(prez_urls[k].doc, prez_urls[l].doc)

\* C4, as claimed: when the fetch or the extraction of a talk's details
\* raises in retrieve_talk_details, the step appends the talk link with
\* authors and abstract "N/A" to the default table, no exception leaves the
\* call, and the loop goes on to the next talk link.
C4_SentinelAndGoOn ==
    [][(pc = "retrieve_talk_details" /\ fetch_raised' # "")
       => /\ Len(data') = Len(data) + 1
          /\ SubSeq(data', 1, Len(data)) = data
          /\ data'[Len(data')].doc = Sentinel @@ outer[i].doc
          /\ result' = "running" /\ pc' = pc
          /\ outer' = [outer EXCEPT ![i].doc = Sentinel @@ outer[i].doc]
          /\ i' = i + 1]_vars

\* the skip lists hit the talk link: its URL holds an entry of url_skips, or
\* its name holds an entry of name_skips
UrlHit(link) ==
    \E k \in DOMAIN arg.url_skips :
        Contains(link[KEY_PREZ_URL], arg.url_skips[k])

NameHit(link) ==
    \E k \in DOMAIN arg.name_skips :
        Contains(link[KEY_PREZ_NAME], arg.name_skips[k])

\* C5: a step of retrieve_talk_details on a talk link that url_skips or
\* name_skips hits, either list alone being enough, requests no page and
\* leaves the default table alone; a talk link that neither hits, and that
\* has no record yet, is requested.
C5_SkipFilters ==
    [][(pc = "retrieve_talk_details" /\ i <= Len(outer))
       => LET link == outer[i].doc
          IN  /\ (UrlHit(link) \/ NameHit(link))
                 => data' = data /\ fetch' = ""
              /\ (/\ ~UrlHit(link) /\ ~NameHit(link)
                  /\ ~\E k \in Rows(data) : SamePair(data[k].doc, link))
                 => fetch' = link[KEY_PREZ_URL]]_vars

\* a call with both lists has returned: of three talk links one was hit by
\* name only, one by URL only, and the third alone has a record
C5_Witness ==
    /\ web = "W2" /\ oneshots = 0
    /\ op = "retrieve_talk_details" /\ result = "returned"
    /\ arg.url_skips # <<>> /\ arg.name_skips # <<>>
    /\ Len(prez_urls) = 3
    /\ \E k \in Rows(prez_urls) :
          UrlHit(prez_urls[k].doc) /\ ~NameHit(prez_urls[k].doc)
    /\ \E k \in Rows(prez_urls) :
          NameHit(prez_urls[k].doc) /\ ~UrlHit(prez_urls[k].doc)
    /\ Len(data) = 1
    /\ ~UrlHit(data[1].doc) /\ ~NameHit(data[1].doc)

\* retrieve_talk_details has returned
DetailsReturned == op = "retrieve_talk_details" /\ result = "returned"

\* retrieve_talk_details has returned, on a store that only the staged
\* phases wrote
StagedDetailsReturned == oneshots = 0 /\ DetailsReturned

\* the skip lists of the call hit the talk link
Skipped(link) == UrlHit(link) \/ NameHit(link)

\* the records of the default table that carry the talk link's four fields,
\* and those of its (talk name, symposium name) pair
RecordsOfLink(link) == {k \in Rows(data) : SameLink(data[k].doc, link)}
RecordsOfPair(link) == {k \in Rows(data) : SamePair(data[k].doc, link)}

C7_TransportFatal ==
    [][(op' \in {"scrape_symposia", "retrieve_talks"}
        /\ fetch_raised' = "RequestException")
       => /\ result' = "RequestException"
          /\ pc' = "idle"
          /\ symp_urls' = symp_urls /\ prez_urls' = prez_urls
          /\ data' = data]_vars

\* retrieve_talks has ended in RequestException at the second symposium,
\* with the talk links of the first stored and none of the second
C7_Witness ==
    /\ web = "W2"
    /\ op = "retrieve_talks" /\ result = "RequestException"
    /\ fetch = "http://h" \o HREF_S2
    /\ Len(symp_urls) = 2
    /\ Len(prez_urls) = 2
    /\ \A k \in Rows(prez_urls) : prez_urls[k].doc[KEY_SYMP_NAME] = "Al"

\* C8, as claimed: every record of the default table has the six fields.
C8_SixFields ==
    \A k \in Rows(data) :
        DOMAIN data[k].doc = {KEY_PREZ_NAME, KEY_PREZ_URL, KEY_SYMP_NAME,
                              KEY_SYMP_URL, KEY_AUTHORS, KEY_ABSTRACT}

\* the record has an abstract of fewer than 100 characters or authors of
\* fewer than 10
ShortTexts(d) ==
    /\ KEY_ABSTRACT \in DOMAIN d /\ KEY_AUTHORS \in DOMAIN d
    /\ Len(d[KEY_ABSTRACT]) < 100 \/ Len(d[KEY_AUTHORS]) < 10

\* C9, as claimed: check_data prints the records of the default table whose
\* abstract has fewer than 100 characters or whose authors have fewer than
\* 10, and no other record.
C9_FlagsShortTexts ==
    op = "check_data"
    => printed = SelectSeq(data, LAMBDA e : ShortTexts(e.doc))

\* a letter of a scheme in lower case: schemes are compared without regard
\* to the case of their letters
SchemeLower(c) ==
    CASE c = "H" -> "h"
      [] c = "T" -> "t"
      [] c = "P" -> "p"
      [] c = "S" -> "s"
      [] OTHER -> c

\* url is scheme://host/rest, the scheme being http or https in letters of
\* either case, the host one character or more and none a "/": the set of
\* the positions of the "/" that ends the host (one position, or none)
HostEnds(url) ==
    {n \in 1..Len(url) :
        \E s \in {"http", "https"} :
            /\ n >= Len(s) + 5
            /\ \A q \in 1..Len(s) : SchemeLower(Char(url, q)) = Char(s, q)
            /\ SubSeq(url, Len(s) + 1, Len(s) + 3) = "://"
            /\ \A q \in (Len(s) + 4)..(n - 1) : Char(url, q) # "/"
            /\ Char(url, n) = "/"}

\* C10, as claimed: on a URL of the shape scheme://host/rest, the scheme
\* http or https, get_url_root returns the text before the first "/" after
\* the host, scheme://host; on every other text it raises
\* RootURLExtractError and returns nothing.
C10_RootExtraction ==
    op = "get_url_root"
    => IF HostEnds(arg.url) # {}
       THEN /\ result = "returned"
            /\ \A n \in HostEnds(arg.url) :
                  loc.url_root = SubSeq(arg.url, 1, n - 1)
       ELSE /\ result = "RootURLExtractError"
            /\ loc.url_root = ""

\* the documents of a table, in its order
Docs(table) == [k \in Rows(table) |-> table[k].doc]

\* the anchors of the meeting page whose href ends with the last 8
\* characters of the meeting URL and holds "OpenDocument"
MeetingPageSymposia ==
    SelectSeq(Anchors(web, URL_MEETING), LAMBDA a :
        /\ a.has_href
        /\ EndsWith(a.href, "12345678")
        /\ Contains(a.href, "OpenDocument"))

\* the talk links of one symposium: one for every anchor of its page whose
\* href ends with "OpenDocument"
SymposiumPageTalks(symp) ==
    LET as == SelectSeq(Anchors(web, symp[KEY_SYMP_URL]), LAMBDA a :
                  a.has_href /\ EndsWith(a.href, "OpenDocument"))
    IN  [k \in 1..Len(as) |->
            LinkDoc(as[k].text, "http://h" \o as[k].href,
                    symp[KEY_SYMP_NAME], symp[KEY_SYMP_URL])]

RECURSIVE TalksOfSymposia(_)
TalksOfSymposia(symps) ==
    IF symps = <<>> THEN <<>>
    ELSE SymposiumPageTalks(Head(symps)) \o TalksOfSymposia(Tail(symps))

\* the record is the talk link with the authors and abstract of its page,
\* or with "N/A" for both; "N/A" when the page is malformed
RecordOfLink(d, link) ==
    LET page == get_prez_data(web, link[KEY_PREZ_URL], TRUE)
    IN  \/ d = Sentinel @@ link
        \/ page.raised = "" /\ d = page.value @@ link

\* C11, as claimed: on a new store, once scrape_symposia has returned the
\* symposium table holds one row for every matching anchor of the meeting
\* page and no other; once retrieve_talks has then returned the talk-link
\* table holds one row for every "OpenDocument" anchor of every stored
\* symposium's page; once retrieve_talk_details has then returned the
\* default table holds one record for every talk link, with the page's
\* authors and abstract or with "N/A".
C11_StagedScenario ==
    /\ (op = "scrape_symposia" /\ result = "returned" /\ calls = 1)
       => Docs(symp_urls)
          = [k \in 1..Len(MeetingPageSymposia) |->
                SympDoc(MeetingPageSymposia[k].text,
                        "http://h" \o MeetingPageSymposia[k].href)]
    /\ (op = "retrieve_talks" /\ result = "returned" /\ calls = 2)
       => Docs(prez_urls) = TalksOfSymposia(Docs(symp_urls))
    /\ (op = "retrieve_talk_details" /\ result = "returned" /\ calls = 3)
       => /\ Len(data) = Len(prez_urls)
          /\ \A k \in Rows(data) :
                k <= Len(prez_urls)
                => RecordOfLink(data[k].doc, prez_urls[k].doc)

\* the table is as it was, or as it was with one row more at its end
AppendedOrSame(old, new) ==
    \/ new = old
    \/ Len(new) = Len(old) + 1 /\ SubSeq(new, 1, Len(old)) = old

\* C12: every step of every function leaves each of the three tables as it
\* was or appends one row at its end: no row is removed or changed.
C12_AppendOnly ==
    [][/\ AppendedOrSame(symp_urls, symp_urls')
       /\ AppendedOrSame(prez_urls, prez_urls')
       /\ AppendedOrSame(data, data')]_vars

\* the three tables hold rows, the default table rows of scrape_meeting
\* and, after them, the row that a step of retrieve_talk_details has just
\* appended for the last talk link
C12_Witness ==
    /\ Len(symp_urls) >= 2 /\ Len(prez_urls) >= 1 /\ Len(data) >= 3
    /\ oneshots = 1
    /\ pc = "retrieve_talk_details" /\ fetch_raised = ""
    /\ data[Len(data)].doc = Detailed(prez_urls[Len(prez_urls)].doc,
           get_prez_data(web, prez_urls[Len(prez_urls)].doc[KEY_PREZ_URL],
                         TRUE))
    /\ fetch # ""

\* the rows of the talk-link table under the symposium's name
RowsOfSymposium(symp_name) ==
    {k \in Rows(prez_urls) :
        KeyIs(prez_urls[k].doc, KEY_SYMP_NAME, symp_name)}

\* C13: a step of retrieve_talks on a symposium whose name is in one row or
\* more of the talk-link table requests no page, inserts nothing and goes
\* on to the next symposium; a page is requested only for a symposium with
\* no row under its name and no skip in its name, and such a symposium is
\* requested when its URL has a root.
C13_ResumeRule ==
    [][(pc = "retrieve_talks" /\ i <= Len(outer))
       => LET symp_name == outer[i].doc[KEY_SYMP_NAME]
              symp_url == outer[i].doc[KEY_SYMP_URL]
              present == RowsOfSymposium(symp_name) # {}
              skipped == AnySkip(arg.skips, symp_name)
          IN  /\ present
                 => /\ fetch' = "" /\ prez_urls' = prez_urls
                    /\ pc' = pc /\ i' = i + 1
              /\ fetch' # "" => ~present /\ ~skipped
              /\ (~present /\ ~skipped /\ get_url_root(symp_url).raised = "")
                 => fetch' = symp_url]_vars

\* a call without a skip has passed over a symposium that has two rows in
\* the talk-link table, requesting nothing
C13_Witness ==
    /\ pc = "retrieve_talks" /\ i = 2 /\ fetch = ""
    /\ ~AnySkip(arg.skips, outer[1].doc[KEY_SYMP_NAME])
    /\ Cardinality(RowsOfSymposium(outer[1].doc[KEY_SYMP_NAME])) = 2

\* C14: a step of retrieve_talks on a symposium whose name holds an entry of
\* skips requests no page and inserts nothing, also when the symposium has
\* no row in the talk-link table; no row that the call inserts is of such
\* a symposium; a symposium that no entry hits and that has no row is
\* requested as it is without the list.
C14_SymposiumSkips ==
    [][/\ (pc = "retrieve_talks" /\ i <= Len(outer))
          => LET symp_name == outer[i].doc[KEY_SYMP_NAME]
                 symp_url == outer[i].doc[KEY_SYMP_URL]
             IN  IF AnySkip(arg.skips, symp_name)
                 THEN /\ fetch' = "" /\ prez_urls' = prez_urls
                      /\ pc' = pc /\ i' = i + 1
                 ELSE (/\ RowsOfSymposium(symp_name) = {}
                       /\ get_url_root(symp_url).raised = "")
                      => fetch' = symp_url
       /\ (op = "retrieve_talks" /\ prez_urls' # prez_urls)
          => ~AnySkip(arg.skips,
                      prez_urls'[Len(prez_urls')].doc[KEY_SYMP_NAME])]_vars

\* a call with skips has returned: the symposium that a skip hits has no
\* row, the other has its talk link
C14_Witness ==
    /\ web = "W2"
    /\ op = "retrieve_talks" /\ result = "returned"
    /\ AnySkip(arg.skips, "Al") /\ ~AnySkip(arg.skips, "Bo")
    /\ Len(symp_urls) = 2
    /\ RowsOfSymposium("Al") = {}
    /\ Cardinality(RowsOfSymposium("Bo")) = 1

\* the SymposiumLinks of the meeting page, one for each matching anchor
MeetingPageLinks ==
    [k \in 1..Len(MeetingPageSymposia) |->
        SympDoc(MeetingPageSymposia[k].text,
                "http://h" \o MeetingPageSymposia[k].href)]

RECURSIVE Copies(_, _)
Copies(seq, n) == IF n = 0 THEN <<>> ELSE Copies(seq, n - 1) \o seq

\* C15: the symposium table is at all times some number of whole copies of
\* the meeting page's SymposiumLinks, followed, while scrape_symposia runs,
\* by the links of the anchors it has passed, stored or not before; a run
\* that returns has added one whole copy, and two runs one after the other
\* on a new store leave two copies of each link.
C15_CopiesPerRun ==
    /\ \E n \in 0..calls :
          Docs(symp_urls)
          = Copies(MeetingPageLinks, n)
            \o (IF pc = "scrape_symposia"
                THEN SubSeq(MeetingPageLinks, 1, i - 1) ELSE <<>>)
    /\ pc = "scrape_symposia" => outer = MeetingPageSymposia
    /\ (op = "scrape_symposia" /\ result = "returned")
       => \E n \in 1..calls :
             Docs(symp_urls) = Copies(MeetingPageLinks, n)
    /\ (op = "scrape_symposia" /\ result = "returned" /\ again = "returned"
        /\ calls = 2)
       => Docs(symp_urls) = Copies(MeetingPageLinks, 2)

\* scrape_symposia has returned twice on a new store: the table holds each
\* of the three SymposiumLinks twice
C15_Witness ==
    /\ web = "W1"
    /\ op = "scrape_symposia" /\ result = "returned" /\ again = "returned"
    /\ calls = 2
    /\ Len(symp_urls) = 6
    /\ symp_urls[1].doc = symp_urls[4].doc

\* the talk links of the meeting page: for every matching symposium anchor,
\* in turn, one for every talk anchor of its page
MeetingTalks == TalksOfSymposia(MeetingPageLinks)

\* C16: a step of scrape_meeting on a talk anchor appends one record of the
\* talk to the default table, whatever the table holds, with "N/A" for
\* authors and abstract when the fetch or the extraction of the details
\* raised, and the call goes on; a RequestException of the meeting page or
\* of a symposium page leaves the call, which ends there with the default
\* table as it was; a call that returns has appended one record for every
\* talk anchor of every symposium anchor, in their order.
C16_OneShotScrape ==
    [][/\ (pc = "scrape_meeting.prez" /\ j <= Len(inner))
          => LET link == LinkDoc(inner[j].text,
                                 loc.url_root \o inner[j].href,
                                 loc.symp_name, loc.symp_url)
             IN  /\ Len(data') = Len(data) + 1
                 /\ SubSeq(data', 1, Len(data)) = data
                 /\ RecordOfLink(data'[Len(data')].doc, link)
                 /\ fetch_raised' # ""
                    => data'[Len(data')].doc = Sentinel @@ link
                 /\ result' = "running" /\ pc' = pc /\ j' = j + 1
       /\ (op' = "scrape_meeting" /\ pc \in {"idle", "scrape_meeting"}
           /\ fetch_raised' = "RequestException")
          => /\ result' = "RequestException" /\ pc' = "idle"
             /\ data' = data
       /\ (pc = "scrape_meeting" /\ result' = "returned")
          => /\ Len(data) >= Len(MeetingTalks)
             /\ \A k \in 1..Len(MeetingTalks) :
                   RecordOfLink(
                       data[Len(data) - Len(MeetingTalks) + k].doc,
                       MeetingTalks[k])]_vars

\* scrape_meeting has returned on a new store: three records, two of them
\* of one talk name and symposium, one of these with "N/A"
C16_Witness ==
    /\ web = "W1" /\ calls = 1
    /\ op = "scrape_meeting" /\ result = "returned"
    /\ Len(data) = 3
    /\ SamePair(data[1].doc, data[2].doc)
    /\ data[1].doc[KEY_AUTHORS] = "Ann and Bob"
    /\ data[2].doc[KEY_AUTHORS] = NA
    /\ data[3].doc[KEY_SYMP_NAME] = ""

\* seq is the first rows of full
IsPrefix(seq, full) ==
    Len(seq) <= Len(full) /\ seq = SubSeq(full, 1, Len(seq))

\* the four link fields of a record
LinkOf(d) ==
    LinkDoc(d[KEY_PREZ_NAME], d[KEY_PREZ_URL], d[KEY_SYMP_NAME],
            d[KEY_SYMP_URL])

\* the symposium rows that retrieve_talks lists and that no skip hits
ListedSymposia ==
    SelectSeq(Docs(SearchKeyDot(symp_urls, KEY_SYMP_NAME)), LAMBDA d :
        ~AnySkip(arg.skips, d[KEY_SYMP_NAME]))

\* C17: the rows of a run are stored in the order of processing.  On a new
\* store the rows of scrape_symposia are the meeting page's symposium
\* anchors in markup order, and the records of scrape_meeting its talk
\* anchors in markup order, symposium by symposium; the rows of
\* retrieve_talks after scrape_symposia are the talk anchors in markup
\* order, in the stored order of the symposia; and of two talk links that
\* both get a record in the one run of retrieve_talk_details, the record
\* of the one stored first comes first.
C17_ProcessingOrder ==
    /\ (calls = 1 /\ op = "scrape_symposia")
       => IsPrefix(Docs(symp_urls), MeetingPageLinks)
    /\ (calls = 1 /\ op = "scrape_meeting")
       => IsPrefix([k \in Rows(data) |-> LinkOf(data[k].doc)], MeetingTalks)
    /\ (calls = 2 /\ op = "retrieve_talks" /\ symp_urls # <<>>)
       => IsPrefix(Docs(prez_urls), TalksOfSymposia(ListedSymposia))
    /\ (calls = 3 /\ oneshots = 0 /\ op = "retrieve_talk_details"
        /\ prez_urls # <<>>)
       => \A a, b \in Rows(prez_urls) : \A ka, kb \in Rows(data) :
             (/\ a < b
              /\ SameLink(data[ka].doc, prez_urls[a].doc)
              /\ SameLink(data[kb].doc, prez_urls[b].doc))
             => ka < kb

\* the one run of retrieve_talk_details has returned with a record for each
\* of three talk links, in their stored order
C17_Witness ==
    /\ web = "W2" /\ calls = 3 /\ oneshots = 0
    /\ op = "retrieve_talk_details" /\ result = "returned"
    /\ Len(prez_urls) = 3 /\ Len(data) = 3
    /\ \A k \in 1..3 : SameLink(data[k].doc, prez_urls[k].doc)

\* the anchors of the page at arg.url that satisfy the predicate of the
\* mode: symposium anchors, talk anchors
MatchingSymposiumAnchors ==
    SelectSeq(Anchors(web, arg.url), LAMBDA a :
        /\ a.has_href
        /\ EndsWith(a.href, LastChars(arg.url, 8))
        /\ Contains(a.href, "OpenDocument"))

MatchingTalkAnchors ==
    SelectSeq(Anchors(web, arg.url), LAMBDA a :
        a.has_href /\ EndsWith(a.href, "OpenDocument"))

\* C18, as claimed: when the page was fetched and none of its anchors
\* satisfies the predicate of the mode, get_symposia_anchors and
\* get_prez_anchors return the empty list and raise nothing, whatever the
\* page holds, anchors without href among it.
C18_EmptyNotError ==
    /\ (/\ op = "get_symposia_anchors"
        /\ fetch_raised # "RequestException"
        /\ MatchingSymposiumAnchors = <<>>)
       => result = "returned" /\ outer = <<>>
    /\ (/\ op = "get_prez_anchors"
        /\ fetch_raised # "RequestException"
        /\ MatchingTalkAnchors = <<>>)
       => result = "returned" /\ outer = <<>>

\* the rows of the symposium in the talk-link table, in stored order
LinksOfSymposium(symp_name) ==
    Docs(SelectSeq(prez_urls, LAMBDA e :
        KeyIs(e.doc, KEY_SYMP_NAME, symp_name)))

\* C19: between the calls, whether the last one returned or raised, every
\* listed symposium has none of its talk links in the talk-link table or
\* all of them; and when a run of retrieve_talks returns, after runs of it
\* that raised or after none, the table is the one of a single run without
\* failure: the talk links of every listed symposium, in order, under the
\* document ids 1, 2, ...
C19_ResumeAfterFailure ==
    /\ pc = "idle"
       => \A k \in 1..Len(ListedSymposia) :
             LET symp == ListedSymposia[k]
             IN  LinksOfSymposium(symp[KEY_SYMP_NAME])
                 \in {<<>>, SymposiumPageTalks(symp)}
    /\ (op = "retrieve_talks" /\ result = "returned")
       => /\ Docs(prez_urls) = TalksOfSymposia(ListedSymposia)
          /\ \A k \in Rows(prez_urls) : prez_urls[k].doc_id = k

\* retrieve_talks has returned at its third run, the two before having
\* ended in RequestException: the three talk links of the site are stored
C19_Witness ==
    /\ web = "W2" /\ calls = 4
    /\ op = "retrieve_talks" /\ result = "returned"
    /\ again = "RequestException"
    /\ Len(prez_urls) = 3

\* C20: no step of scrape_symposia, from its call to its return or raise,
\* changes the talk-link table or the default table; none of
\* retrieve_talks changes the symposium table or the default table; none
\* of retrieve_talk_details changes the symposium table or the talk-link
\* table; and check_data changes none of the three and returns.
C20_Frame ==
    [][/\ op' = "scrape_symposia"
          => prez_urls' = prez_urls /\ data' = data
       /\ op' = "retrieve_talks"
          => symp_urls' = symp_urls /\ data' = data
       /\ op' = "retrieve_talk_details"
          => symp_urls' = symp_urls /\ prez_urls' = prez_urls
       /\ op' = "check_data"
          => /\ symp_urls' = symp_urls /\ prez_urls' = prez_urls
             /\ data' = data
             /\ result' = "returned"]_vars

\* retrieve_talk_details has ended in an exception with rows in the three
\* tables
C20_Witness ==
    /\ op = "retrieve_talk_details"
    /\ result \notin {"running", "returned"}
    /\ symp_urls # <<>> /\ prez_urls # <<>> /\ data # <<>>

===========================================================================
